---- MODULE Spec2Model ----
(***************************************************************************)
(* Checkers: the Board (board.js), its pieces (checker.js), its events     *)
(* (boardEvent.js) and the Rules engine (rules.js).                        *)
(*                                                                         *)
(* A running call works on a "board value" b, a record of the mutable      *)
(* state it can touch:                                                     *)
(*   b.square  the grid, a function from the stored cells <<row, col>> to  *)
(*             the checker stored there (a JavaScript sparse array: a cell *)
(*             outside the domain reads as undefined);                     *)
(*   b.loc     checker.row / checker.col of every checker: <<>> while both *)
(*             are undefined, <<row, col>> once Board has written them;    *)
(*   b.isKing  checker.isKing of every checker;                            *)
(*   b.events  the events dispatched so far by the call, in order;         *)
(*   b.error   "none", or the exception that ended the call.               *)
(***************************************************************************)
EXTENDS Integers, Sequences, FiniteSets, TLC

VARIABLES boardSize, square, loc, isKing, events, result, call, nops

vars == <<boardSize, square, loc, isKing, events, result, call, nops>>

\* ------------------------------------------------------------------ bounds
\* side of the board in Spec (callers pass any arguments)
SmallSize == 2
\* side of the board in SpecGame (callers honour the documented requirements)
GameSize == 5
\* number of calls in one behaviour of Spec
MaxOps == 3
\* number of calls in one behaviour of SpecGame
MaxGameOps == 4
\* number of calls in one behaviour of SpecPosition
MaxPositionOps == 6
\* number of calls in one behaviour of SpecSquares
MaxSquaresOps == 3

\* ------------------------------------------------------------------ pieces
Checkers == {"r1", "b1", "b2"}

color(checker) == IF checker = "r1" THEN "red" ELSE "black"

Colors == {"red", "black"}

\* a cell that holds no checker reads as undefined
Empty == "undefined"

\* rows for which the constructor made a row array: 0..boardSize, both included
RowArrays == 0..boardSize

\* coordinates a caller may pass: one beyond the board on either side
Coords == (0 - 1)..boardSize

Directions == {0 - 1, 1}

\* a direction that is neither 1 nor -1, as a caller of Rules may pass
OtherDirections == {0}

\* ------------------------------------------------------------------ Board
isValidLocation(row, col) ==
    ~(row < 0 \/ col < 0 \/ row >= boardSize \/ col >= boardSize)

\* this.square[row][col] for a row that has a row array
cellAt(b, row, col) ==
    IF <<row, col>> \in DOMAIN b.square THEN b.square[<<row, col>>] ELSE Empty

getCheckerAt(b, row, col) ==
    IF isValidLocation(row, col) THEN cellAt(b, row, col) ELSE Empty

isEmptyLocation(b, row, col) == getCheckerAt(b, row, col) = Empty

\* the object getLocationOf returns, {row: checker.row, col: checker.col}, as a
\* list of one value: the function has no path that returns null (the empty list)
getLocationOf(b, checker) == << b.loc[checker] >>

\* the condition checkRep asserts (a failure only raises an alert)
checkRep(b) ==
    \A cell \in DOMAIN b.square : b.loc[b.square[cell]] = cell

getAllCheckers(b) == {b.square[cell] : cell \in DOMAIN b.square}

\* delete this.square[row][col]
deleteCell(sq, row, col) ==
    [cell \in (DOMAIN sq) \ {<<row, col>>} |-> sq[cell]]

\* this.square[row][col] = checker
storeCell(sq, row, col, checker) ==
    [cell \in (DOMAIN sq) \cup {<<row, col>>} |->
        IF cell = <<row, col>> THEN checker ELSE sq[cell]]

throw(b, error) == [b EXCEPT !.error = error]

\* type and details of an event: at is <<row, col>> (add, remove) or
\* <<toRow, toCol>> (move), from is <<fromRow, fromCol>> (move); <<>> when absent
BoardEvent(type, checker, at, from) ==
    [type |-> type, checker |-> checker, at |-> at, from |-> from]

dispatchBoardEvent(b, type, checker, at, from) ==
    [b EXCEPT !.events = Append(@, BoardEvent(type, checker, at, from))]

add(b, checker, row, col) ==
    IF b.error # "none" THEN b
    ELSE IF ~isEmptyLocation(b, row, col) THEN b
    ELSE LET b1 == [b EXCEPT !.loc[checker] = <<row, col>>]
         IN IF row \notin RowArrays THEN throw(b1, "TypeError")
            ELSE LET b2 == [b1 EXCEPT !.square = storeCell(@, row, col, checker)]
                 IN dispatchBoardEvent(b2, "add", checker, <<row, col>>, <<>>)

canBeKing(checker, row, col) ==
    IF color(checker) = "red" THEN row = boardSize - 1 ELSE row = 0

promote(b, checker) ==
    dispatchBoardEvent([b EXCEPT !.isKing[checker] = TRUE],
                       "promote", checker, <<>>, <<>>)

moveTo(b, checker, toRow, toCol) ==
    IF b.error # "none" THEN b
    ELSE IF ~isEmptyLocation(b, toRow, toCol) THEN b
    ELSE LET from == b.loc[checker]
         IN IF from = <<>> \/ from[1] \notin RowArrays THEN throw(b, "TypeError")
            ELSE LET b1 == [b EXCEPT !.square = deleteCell(@, from[1], from[2])]
                 IN IF toRow \notin RowArrays THEN throw(b1, "TypeError")
                    ELSE LET b2 == [b1 EXCEPT !.square = storeCell(@, toRow, toCol, checker)]
                             b3 == IF canBeKing(checker, toRow, toCol)
                                   THEN promote(b2, checker) ELSE b2
                             b4 == [b3 EXCEPT !.loc[checker] = <<toRow, toCol>>]
                         IN dispatchBoardEvent(b4, "move", checker, <<toRow, toCol>>, from)

\* the board value on which the handlers of "promote" run inside
\* moveTo(checker, toRow, toCol) when the move makes the checker a king: the
\* grid is written and isKing is set, checker.row and checker.col are not yet
moveToAtPromote(b, checker, toRow, toCol) ==
    LET from == b.loc[checker]
        b1 == [b EXCEPT !.square = deleteCell(@, from[1], from[2])]
        b2 == [b1 EXCEPT !.square = storeCell(@, toRow, toCol, checker)]
    IN promote(b2, checker)

\* checker may be Empty: the undefined that getCheckerAt returned
remove(b, checker) ==
    IF b.error # "none" THEN b
    ELSE IF checker = Empty THEN throw(b, "TypeError")
    ELSE LET at == b.loc[checker]
         IN IF at = <<>> \/ at[1] \notin RowArrays THEN throw(b, "TypeError")
            ELSE LET b1 == [b EXCEPT !.square = deleteCell(@, at[1], at[2])]
                 IN dispatchBoardEvent(b1, "remove", checker, at, <<>>)

removeAt(b, row, col) ==
    IF b.error # "none" THEN b
    ELSE IF row \notin RowArrays THEN throw(b, "TypeError")
    ELSE IF cellAt(b, row, col) = Empty THEN throw(b, "ReferenceError")
    ELSE LET checker == cellAt(b, row, col)
             b1 == [b EXCEPT !.square = deleteCell(@, row, col)]
         IN dispatchBoardEvent(b1, "remove", checker, <<row, col>>, <<>>)

\* the name of the property that for .. in yields for an index: a string
keyOf(n) == ToString(n)

\* the columns of a row array in the order for .. in visits them: the array
\* indices in ascending order, then the property -1
colsInOrder == [k \in 1..(boardSize + 2) |-> IF k = boardSize + 2 THEN 0 - 1 ELSE k - 1]

\* the cells of the grid in the order clear visits them, row array by row array
cellsInOrder ==
    [k \in 1..((boardSize + 1) * (boardSize + 2)) |->
        <<(k - 1) \div (boardSize + 2), colsInOrder[((k - 1) % (boardSize + 2)) + 1]>>]

\* the body of the loops of clear for one cell: removeAt(r, c) if the cell holds a
\* checker, r and c being the property names, which the event carries as they are
clearCell(b, row, col) ==
    IF b.error # "none" THEN b
    ELSE IF cellAt(b, row, col) = Empty THEN b
    ELSE LET checker == cellAt(b, row, col)
             b1 == [b EXCEPT !.square = deleteCell(@, row, col)]
         IN dispatchBoardEvent(b1, "remove", checker, <<keyOf(row), keyOf(col)>>, <<>>)

RECURSIVE clearFrom(_, _)
clearFrom(b, k) ==
    IF k > Len(cellsInOrder) THEN b
    ELSE clearFrom(clearCell(b, cellsInOrder[k][1], cellsInOrder[k][2]), k + 1)

\* clear that stops after the first cell it empties
clear_firstOnly(b) ==
    LET held == {k \in 1..Len(cellsInOrder) :
                    cellAt(b, cellsInOrder[k][1], cellsInOrder[k][2]) # Empty}
    IN IF held = {} THEN b
       ELSE LET k == CHOOSE i \in held : \A j \in held : i <= j
            IN clearCell(b, cellsInOrder[k][1], cellsInOrder[k][2])

clear(b) == clearFrom(b, 1)

\* ------------------------------------------------------------------ Rules
\* isValidJump without its first test, that the landing is a square of the board
isValidJump_anyLanding(b, checker, fromRow, fromCol, toRow, toCol, playerDirection) ==
    IF ~isEmptyLocation(b, toRow, toCol) THEN FALSE
    ELSE IF (toRow - fromRow) * playerDirection < 0 /\ ~b.isKing[checker] THEN FALSE
    ELSE IF isEmptyLocation(b, (toRow + fromRow) \div 2, (toCol + fromCol) \div 2)
         THEN FALSE
    ELSE IF color(getCheckerAt(b, (toRow + fromRow) \div 2, (toCol + fromCol) \div 2))
               = color(checker)
         THEN FALSE
    ELSE TRUE

\* isValidJump without the test that keeps a checker that is no king from
\* jumping backward
isValidJump_anyDirection(b, checker, fromRow, fromCol, toRow, toCol, playerDirection) ==
    IF ~isValidLocation(toRow, toCol) THEN FALSE
    ELSE IF ~isEmptyLocation(b, toRow, toCol) THEN FALSE
    ELSE IF isEmptyLocation(b, (toRow + fromRow) \div 2, (toCol + fromCol) \div 2)
         THEN FALSE
    ELSE IF color(getCheckerAt(b, (toRow + fromRow) \div 2, (toCol + fromCol) \div 2))
               = color(checker)
         THEN FALSE
    ELSE TRUE

\* isValidJump without its last test, that the checker jumped is of the other color
isValidJump_anyColor(b, checker, fromRow, fromCol, toRow, toCol, playerDirection) ==
    IF ~isValidLocation(toRow, toCol) THEN FALSE
    ELSE IF ~isEmptyLocation(b, toRow, toCol) THEN FALSE
    ELSE IF (toRow - fromRow) * playerDirection < 0 /\ ~b.isKing[checker] THEN FALSE
    ELSE IF isEmptyLocation(b, (toRow + fromRow) \div 2, (toCol + fromCol) \div 2)
         THEN FALSE
    ELSE TRUE

isValidJump(b, checker, fromRow, fromCol, toRow, toCol, playerDirection) ==
    IF ~isValidLocation(toRow, toCol) THEN FALSE
    ELSE IF ~isEmptyLocation(b, toRow, toCol) THEN FALSE
    ELSE IF (toRow - fromRow) * playerDirection < 0 /\ ~b.isKing[checker] THEN FALSE
    ELSE IF isEmptyLocation(b, (toRow + fromRow) \div 2, (toCol + fromCol) \div 2)
         THEN FALSE
    ELSE IF color(getCheckerAt(b, (toRow + fromRow) \div 2, (toCol + fromCol) \div 2))
               = color(checker)
         THEN FALSE
    ELSE TRUE

\* alreadyJumpedPiece that does not look at the last jump of the sequence
alreadyJumpedPiece_butLast(jumpSeq, row, col) ==
    \E j \in 1..(Len(jumpSeq) - 1) :
        col = jumpSeq[j].killedCol /\ row = jumpSeq[j].killedRow

alreadyJumpedPiece(jumpSeq, row, col) ==
    \E j \in 1..Len(jumpSeq) :
        col = jumpSeq[j].killedCol /\ row = jumpSeq[j].killedRow

\* validJumpsFor that returns a sequence only if no jump can follow it
RECURSIVE validJumpsFor_longestOnly(_, _, _, _, _, _)
validJumpsFor_longestOnly(b, checker, playerDirection, jumpSeq, curRow, curCol) ==
    LET possibleDestinations ==
            << <<curRow + 2, curCol + 2>>, <<curRow + 2, curCol - 2>>,
               <<curRow - 2, curCol + 2>>, <<curRow - 2, curCol - 2>> >>
        seqsVia(i) ==
            LET toRow == possibleDestinations[i][1]
                toCol == possibleDestinations[i][2]
                jumped == [killedCol |-> (curCol + toCol) \div 2,
                           killedRow |-> (curRow + toRow) \div 2,
                           col |-> toCol, row |-> toRow]
            IN IF /\ isValidJump(b, checker, curRow, curCol, toRow, toCol, playerDirection)
                  /\ ~alreadyJumpedPiece(jumpSeq, jumped.killedRow, jumped.killedCol)
               THEN LET futureJumps ==
                            validJumpsFor_longestOnly(b, checker, playerDirection,
                                                      Append(jumpSeq, jumped), toRow, toCol)
                    IN IF futureJumps = <<>> THEN << Append(jumpSeq, jumped) >>
                       ELSE futureJumps
               ELSE <<>>
    IN seqsVia(1) \o seqsVia(2) \o seqsVia(3) \o seqsVia(4)

\* the jump sequences that extend jumpSeq from (curRow, curCol): for each of the
\* four landings in turn, the longer sequences first, then the one ending there
RECURSIVE validJumpsFor(_, _, _, _, _, _)
validJumpsFor(b, checker, playerDirection, jumpSeq, curRow, curCol) ==
    LET possibleDestinations ==
            << <<curRow + 2, curCol + 2>>, <<curRow + 2, curCol - 2>>,
               <<curRow - 2, curCol + 2>>, <<curRow - 2, curCol - 2>> >>
        seqsVia(i) ==
            LET toRow == possibleDestinations[i][1]
                toCol == possibleDestinations[i][2]
                jumped == [killedCol |-> (curCol + toCol) \div 2,
                           killedRow |-> (curRow + toRow) \div 2,
                           col |-> toCol, row |-> toRow]
            IN IF /\ isValidJump(b, checker, curRow, curCol, toRow, toCol, playerDirection)
                  /\ ~alreadyJumpedPiece(jumpSeq, jumped.killedRow, jumped.killedCol)
               THEN validJumpsFor(b, checker, playerDirection,
                                  Append(jumpSeq, jumped), toRow, toCol)
                    \o << Append(jumpSeq, jumped) >>
               ELSE <<>>
    IN seqsVia(1) \o seqsVia(2) \o seqsVia(3) \o seqsVia(4)

\* collapseJumpSequence taking the destination from the first jump of the
\* sequence, not from the last
collapseJumpSequence_firstLanding(b, jumpSequence) ==
    [to_col |-> jumpSequence[1].col,
     to_row |-> jumpSequence[1].row,
     remove |-> [j \in 1..Len(jumpSequence) |->
                   [row |-> jumpSequence[j].killedRow,
                    col |-> jumpSequence[j].killedCol,
                    color |-> color(getCheckerAt(b, jumpSequence[j].killedRow,
                                                 jumpSequence[j].killedCol)),
                    isKing |-> b.isKing[getCheckerAt(b, jumpSequence[j].killedRow,
                                                     jumpSequence[j].killedCol)]]]]

collapseJumpSequence(b, jumpSequence) ==
    [to_col |-> jumpSequence[Len(jumpSequence)].col,
     to_row |-> jumpSequence[Len(jumpSequence)].row,
     remove |-> [j \in 1..Len(jumpSequence) |->
                   [row |-> jumpSequence[j].killedRow,
                    col |-> jumpSequence[j].killedCol,
                    color |-> color(getCheckerAt(b, jumpSequence[j].killedRow,
                                                 jumpSequence[j].killedCol)),
                    isKing |-> b.isKing[getCheckerAt(b, jumpSequence[j].killedRow,
                                                     jumpSequence[j].killedCol)]]]]

\* a simple step to (row, col), as a list of zero or one move
stepTo(b, row, col, allowed) ==
    IF isValidLocation(row, col) /\ isEmptyLocation(b, row, col) /\ allowed
    THEN << [to_col |-> col, to_row |-> row, remove |-> <<>>] >>
    ELSE <<>>

\* validMovesFor whose forward steps include the square straight ahead
validMovesFor_straightAhead(b, checker, playerDirection) ==
    IF b.loc[checker] = <<>> THEN [error |-> "TypeError", moves |-> <<>>]
    ELSE LET row == b.loc[checker][1]
             col == b.loc[checker][2]
             jumps == validJumpsFor(b, checker, playerDirection, <<>>, row, col)
         IN [error |-> "none",
             moves |-> stepTo(b, row + playerDirection, col - 1, TRUE)
                       \o stepTo(b, row + playerDirection, col, TRUE)
                       \o stepTo(b, row + playerDirection, col + 1, TRUE)
                       \o stepTo(b, row - playerDirection, col - 1, b.isKing[checker] = TRUE)
                       \o stepTo(b, row - playerDirection, col + 1, b.isKing[checker] = TRUE)
                       \o [i \in 1..Len(jumps) |-> collapseJumpSequence(b, jumps[i])]]

\* validMovesFor that returns the jumps alone when there are any
validMovesFor_jumpsOnly(b, checker, playerDirection) ==
    IF b.loc[checker] = <<>> THEN [error |-> "TypeError", moves |-> <<>>]
    ELSE LET row == b.loc[checker][1]
             col == b.loc[checker][2]
             jumps == validJumpsFor(b, checker, playerDirection, <<>>, row, col)
         IN [error |-> "none",
             moves |-> (IF jumps # <<>> THEN <<>>
                        ELSE stepTo(b, row + playerDirection, col - 1, TRUE)
                             \o stepTo(b, row + playerDirection, col + 1, TRUE)
                             \o stepTo(b, row - playerDirection, col - 1, b.isKing[checker] = TRUE)
                             \o stepTo(b, row - playerDirection, col + 1, b.isKing[checker] = TRUE))
                       \o [i \in 1..Len(jumps) |-> collapseJumpSequence(b, jumps[i])]]

\* the list of moves, or the TypeError of a checker whose row and col are undefined:
\* (assertTrue on playerDirection raises an alert at most and execution goes on)
\* row + playerDirection is then NaN, isValidLocation holds of NaN, and
\* isEmptyLocation reads this.square[NaN][NaN]
validMovesFor(b, checker, playerDirection) ==
    IF b.loc[checker] = <<>> THEN [error |-> "TypeError", moves |-> <<>>]
    ELSE LET row == b.loc[checker][1]
             col == b.loc[checker][2]
             jumps == validJumpsFor(b, checker, playerDirection, <<>>, row, col)
         IN [error |-> "none",
             moves |-> stepTo(b, row + playerDirection, col - 1, TRUE)
                       \o stepTo(b, row + playerDirection, col + 1, TRUE)
                       \o stepTo(b, row - playerDirection, col - 1, b.isKing[checker] = TRUE)
                       \o stepTo(b, row - playerDirection, col + 1, b.isKing[checker] = TRUE)
                       \o [i \in 1..Len(jumps) |-> collapseJumpSequence(b, jumps[i])]]

\* the index of the first move of the list that ends on (toRow, toCol), or 0
firstMoveTo(moves, toRow, toCol) ==
    LET hits == {i \in 1..Len(moves) :
                   moves[i].to_col = toCol /\ moves[i].to_row = toRow}
    IN IF hits = {} THEN 0 ELSE CHOOSE i \in hits : \A k \in hits : i <= k

\* ramificationsOfMove without the test of whose turn it is
ramificationsOfMove_anyTurn(validMoves, turnDirection, playerDirection, toRow, toCol) ==
    IF validMoves.error # "none" THEN [error |-> validMoves.error, value |-> <<>>]
    ELSE LET i == firstMoveTo(validMoves.moves, toRow, toCol)
         IN [error |-> "none",
             value |-> IF i = 0 THEN <<>> ELSE << validMoves.moves[i] >>]

\* validMoves is the value of this.validMovesFor(checker, playerDirection) on the
\* board of the call (it is passed in so that one evaluation serves every
\* destination); the result is the exception thrown if any, and <<>> for null or
\* <<move>> for the move returned
ramificationsOfMove(validMoves, turnDirection, playerDirection, toRow, toCol) ==
    IF playerDirection # turnDirection THEN [error |-> "none", value |-> <<>>]
    ELSE IF validMoves.error # "none" THEN [error |-> validMoves.error, value |-> <<>>]
    ELSE LET i == firstMoveTo(validMoves.moves, toRow, toCol)
         IN [error |-> "none",
             value |-> IF i = 0 THEN <<>> ELSE << validMoves.moves[i] >>]

\* step 2 of makeMove: remove the checker on each square of the list, in order
RECURSIVE removeDead(_, _, _)
removeDead(b, dead, i) ==
    IF i > Len(dead) THEN b
    ELSE removeDead(remove(b, getCheckerAt(b, dead[i].row, dead[i].col)), dead, i + 1)

\* the board value left by the call and the value returned (<<>> for null);
\* validMoves is validMovesFor(b, checker, playerDirection)
makeMove(b, checker, validMoves, turnDirection, playerDirection, toRow, toCol) ==
    LET ramifications ==
            ramificationsOfMove(validMoves, turnDirection, playerDirection, toRow, toCol)
        wasKingBefore == b.isKing[checker]
    IN IF ramifications.error # "none"
       THEN [board |-> throw(b, ramifications.error), value |-> <<>>]
       ELSE IF ramifications.value = <<>> THEN [board |-> b, value |-> <<>>]
       ELSE LET move == ramifications.value[1]
                b1 == moveTo(b, checker, move.to_row, move.to_col)
                b2 == removeDead(b1, move.remove, 1)
            IN [board |-> b2,
                value |-> IF b2.error # "none" THEN <<>>
                          ELSE << [from_col |-> b.loc[checker][2],
                                   from_row |-> b.loc[checker][1],
                                   to_col |-> move.to_col,
                                   to_row |-> move.to_row,
                                   made_king |-> ~wasKingBefore /\ b1.isKing[checker],
                                   remove |-> move.remove] >>]

\* the end of makeRandomMove once move, the first of the shuffled validMoves, is
\* chosen: makeMove is called with the destination of move, nothing else of it;
\* the outcome is the board left, the value returned, and move itself
madeWith(b, checker, validMoves, playerDirection, move) ==
    LET made == makeMove(b, checker, validMoves, playerDirection, playerDirection,
                         move.to_row, move.to_col)
    IN [board |-> made.board, value |-> made.value, move |-> << move >>]

\* makeRandomMove that asks only the checker that comes first after the shuffle,
\* and returns null when that one has no move
makeRandomMove_firstOnly(b, playerColor, playerDirection) ==
    LET myCheckers == {checker \in getAllCheckers(b) : color(checker) = playerColor}
    IN IF myCheckers = {} THEN {[board |-> b, value |-> <<>>, move |-> <<>>]}
       ELSE UNION {
              LET validMoves == validMovesFor(b, checker, playerDirection)
              IN IF validMoves.moves = <<>>
                 THEN {[board |-> b, value |-> <<>>, move |-> <<>>]}
                 ELSE {madeWith(b, checker, validMoves, playerDirection, validMoves.moves[i]) :
                          i \in 1..Len(validMoves.moves)} :
              checker \in myCheckers}

\* the outcomes of makeRandomMove, one for each way the two shuffles can fall:
\* shuffle can bring any checker of the color to the front of myCheckers and any
\* move to the front of validMoves, so the checker that moves is any one of those
\* that have a move, and its destination that of any one of its moves; makeMove
\* then looks the destination up again; an outcome holds the board left, the
\* value returned and the move that was chosen (<<>> when there was none)
makeRandomMove(b, playerColor, playerDirection) ==
    LET myCheckers == {checker \in getAllCheckers(b) : color(checker) = playerColor}
        movers == {checker \in myCheckers :
                      validMovesFor(b, checker, playerDirection).moves # <<>>}
    IN IF movers = {} THEN {[board |-> b, value |-> <<>>, move |-> <<>>]}
       ELSE UNION {
              LET validMoves == validMovesFor(b, checker, playerDirection)
              IN {madeWith(b, checker, validMoves, playerDirection, validMoves.moves[i]) :
                     i \in 1..Len(validMoves.moves)} :
              checker \in movers}

\* ------------------------------------------------------------------ state
\* the board value a call starts from: no event dispatched yet, no exception
Start == [square |-> square, loc |-> loc, isKing |-> isKing,
          events |-> <<>>, error |-> "none"]

\* what a call returned: value is <<>> for null / undefined, <<v>> for a value v
Returned(b, value) == [error |-> b.error, value |-> value]

Commit(b, op, value) ==
    /\ square' = b.square
    /\ loc' = b.loc
    /\ isKing' = b.isKing
    /\ events' = b.events
    /\ result' = Returned(b, value)
    /\ call' = op
    /\ UNCHANGED boardSize

InitBoard(size) ==
    /\ boardSize = size
    /\ square = <<>>
    /\ loc = [p \in Checkers |-> <<>>]
    /\ isKing = [p \in Checkers |-> FALSE]
    /\ events = <<>>
    /\ result = [error |-> "none", value |-> <<>>]
    /\ call = "Board"
    /\ nops = 0

Init == InitBoard(SmallSize)

Add(checker, row, col) ==
    /\ nops' = nops + 1
    /\ Commit(add(Start, checker, row, col), "add", <<>>)

MoveTo(checker, toRow, toCol) ==
    /\ nops' = nops + 1
    /\ Commit(moveTo(Start, checker, toRow, toCol), "moveTo", <<>>)

Remove(checker) ==
    /\ nops' = nops + 1
    /\ Commit(remove(Start, checker), "remove", <<>>)

RemoveAt(row, col) ==
    /\ nops' = nops + 1
    /\ Commit(removeAt(Start, row, col), "removeAt", <<>>)

\* the call makeMove(checker, turnDirection, playerDirection, toRow, toCol);
\* validMoves is validMovesFor(Start, checker, playerDirection)
MakeMoveTo(checker, validMoves, turnDirection, playerDirection, toRow, toCol) ==
    LET made == makeMove(Start, checker, validMoves,
                         turnDirection, playerDirection, toRow, toCol)
    IN /\ nops' = nops + 1
       /\ Commit(made.board, "makeMove", made.value)

Clear ==
    /\ nops' = nops + 1
    /\ Commit(clear(Start), "clear", <<>>)

MakeRandomMove(playerColor, playerDirection) ==
    \E made \in makeRandomMove(Start, playerColor, playerDirection) :
        /\ nops' = nops + 1
        /\ Commit(made.board, "makeRandomMove", made.value)

\* makeMove of a checker as a player, for every turnDirection and destination
MakeMove(checker, playerDirection) ==
    LET validMoves == validMovesFor(Start, checker, playerDirection)
    IN \E turnDirection \in Directions \cup {playerDirection},
          toRow \in Coords, toCol \in Coords :
         MakeMoveTo(checker, validMoves, turnDirection, playerDirection, toRow, toCol)

Next ==
    /\ nops < MaxOps
    /\ \/ \E checker \in Checkers, row \in Coords, col \in Coords : Add(checker, row, col)
       \/ \E checker \in Checkers, row \in Coords, col \in Coords : MoveTo(checker, row, col)
       \/ \E checker \in Checkers : Remove(checker)
       \/ \E row \in Coords, col \in Coords : RemoveAt(row, col)
       \/ Clear
       \/ \E checker \in Checkers, playerDirection \in Directions \cup OtherDirections :
             MakeMove(checker, playerDirection)

Spec == Init /\ [][Next]_vars

\* ------------------------------------------------------------------ a game
\* what the comments of Board.add require of its caller: the checker is not
\* currently on the board and (row, col) designates a valid empty square
addRequires(checker, row, col) ==
    /\ checker \notin getAllCheckers(Start)
    /\ isValidLocation(row, col)
    /\ isEmptyLocation(Start, row, col)

\* the squares a game is played on: prepareNewGame sets its checkers on squares
\* (1 - i%2, i), whose row + col is odd
isDarkSquare(row, col) == (row + col) % 2 = 1

\* b1 and b2 are alike (same color, same isKing when created): a game that adds
\* b2 first is a game that adds b1 first with the two names exchanged
addedInOrder(checker) == checker = "b2" => loc["b1"] # <<>>

InitGame == InitBoard(GameSize)

NextGame ==
    /\ nops < MaxGameOps
    /\ \/ \E checker \in Checkers, row \in Coords, col \in Coords :
             /\ addRequires(checker, row, col)
             /\ isDarkSquare(row, col)
             /\ addedInOrder(checker)
             /\ Add(checker, row, col)
       \/ \E checker \in Checkers, playerDirection \in Directions :
             MakeMove(checker, playerDirection)
       \/ \E playerColor \in Colors, playerDirection \in Directions :
             MakeRandomMove(playerColor, playerDirection)

SpecGame == InitGame /\ [][NextGame]_vars

\* ------------------------------------------------------------------ any square
InitSquares == InitBoard(GameSize)

\* a game in which the checkers are added on squares of either color
NextSquares ==
    /\ nops < MaxSquaresOps
    /\ \/ \E checker \in Checkers, row \in Coords, col \in Coords :
             /\ addRequires(checker, row, col)
             /\ addedInOrder(checker)
             /\ Add(checker, row, col)
       \/ \E checker \in Checkers, playerDirection \in Directions :
             MakeMove(checker, playerDirection)
       \/ \E playerColor \in Colors, playerDirection \in Directions :
             MakeRandomMove(playerColor, playerDirection)

SpecSquares == InitSquares /\ [][NextSquares]_vars

\* ------------------------------------------------------------------ a position
\* one red checker and four black ones: enough for two chains of jumps that end
\* on the same square
ManyCheckers == {"r1", "b1", "b2", "b3", "b4"}

\* the squares the black checkers of prepareNewGame stand on,
\* (boardSize - 1 - i%2, i): those whose row + col has the parity of boardSize - 1
isBlackSquare(row, col) == (row + col) % 2 = (boardSize - 1) % 2

\* the black checkers are alike: they are added in the order of their names, each
\* on a square that comes after the square of the one before
addedInTurn(checker, row, col) ==
    \A k \in 2..4 :
        checker = <<"b1", "b2", "b3", "b4">>[k] =>
            LET before == loc[<<"b1", "b2", "b3", "b4">>[k - 1]]
            IN /\ before # <<>>
               /\ before[1] * boardSize + before[2] < row * boardSize + col

InitPosition ==
    /\ boardSize = GameSize
    /\ square = <<>>
    /\ loc = [p \in ManyCheckers |-> <<>>]
    /\ isKing = [p \in ManyCheckers |-> FALSE]
    /\ events = <<>>
    /\ result = [error |-> "none", value |-> <<>>]
    /\ call = "Board"
    /\ nops = 0

\* the checkers are set up as add requires, then one random move is made
NextPosition ==
    /\ nops < MaxPositionOps
    /\ \/ \E checker \in ManyCheckers, row \in Coords, col \in Coords :
             /\ call \in {"Board", "add"}
             /\ addRequires(checker, row, col)
             /\ isBlackSquare(row, col)
             /\ addedInTurn(checker, row, col)
             /\ Add(checker, row, col)
       \/ \E playerColor \in Colors, playerDirection \in Directions :
             MakeRandomMove(playerColor, playerDirection)

SpecPosition == InitPosition /\ [][NextPosition]_vars

\* ------------------------------------------------------------------ claims
\* the cells of the grid that hold a checker
Occupied == DOMAIN square

OnBoard(checker) == \E cell \in Occupied : square[cell] = checker


\* C1: after any sequence of add / moveTo / remove / removeAt calls, every cell
\* that holds a checker holds one whose row and col are the cell's
C1_RepInvariant ==
    \A cell \in Occupied : loc[square[cell]] = cell

\* C4: Board.add(checker, row, col) changes neither the grid nor the checker's
\* row / col and emits no event when the target cell holds a checker or when
\* the checker is already on the board in another cell
C4_AddRejected ==
    [][\A checker \in Checkers, row \in Coords, col \in Coords :
         ( /\ Add(checker, row, col)
           /\ \/ <<row, col>> \in Occupied
              \/ \E cell \in Occupied : square[cell] = checker /\ cell # <<row, col>> )
         => /\ square' = square
            /\ loc' = loc
            /\ events' = <<>>]_vars

\* C5: every checker held by the grid is held by a cell (row, col) with
\* 0 <= row, col < boardSize, and its own row and col are in that range too
C5_Bounds ==
    \A cell \in Occupied :
        /\ isValidLocation(cell[1], cell[2])
        /\ loc[square[cell]] # <<>>
        /\ isValidLocation(loc[square[cell]][1], loc[square[cell]][2])

\* C6: moveTo and remove of a checker that is not on the board, and moveTo onto
\* an occupied square, change no cell of the grid and emit no event
C6_NotOnBoardRejected ==
    [][/\ \A checker \in Checkers :
            (Remove(checker) /\ ~OnBoard(checker))
            => (square' = square /\ events' = <<>>)
       /\ \A checker \in Checkers, toRow \in Coords, toCol \in Coords :
            ( /\ MoveTo(checker, toRow, toCol)
              /\ (~OnBoard(checker) \/ <<toRow, toCol>> \in Occupied) )
            => (square' = square /\ events' = <<>>)]_vars

\* ------------------------------------------------------------------ makeMove
\* the squares of a list of captures
Cells(dead) == {<<dead[k].row, dead[k].col>> : k \in 1..Len(dead)}

\* the captures dead[i..] are jumped one after the other from square pos, each one
\* a diagonal neighbour of the square the checker stands on, and the last jump
\* lands on square to
RECURSIVE ChainFrom(_, _, _, _)
ChainFrom(pos, dead, i, to) ==
    IF i > Len(dead) THEN pos = to
    ELSE /\ dead[i].row - pos[1] \in {0 - 1, 1}
         /\ dead[i].col - pos[2] \in {0 - 1, 1}
         /\ ChainFrom(<<2 * dead[i].row - pos[1], 2 * dead[i].col - pos[2]>>,
                      dead, i + 1, to)

\* the last call was a makeMove that returned a move
MoveMade == call = "makeMove" /\ result.error = "none" /\ result.value # <<>>

\* this step is the call makeMove(checker, d, d, r.to_row, r.to_col)
IsMoveOf(checker, d, r) ==
    MakeMoveTo(checker, validMovesFor(Start, checker, d), d, d, r.to_row, r.to_col)

\* what C2 says of a move r made by checker
MakeMovePost(checker, r) ==
    LET from == loc[checker]
        to == <<r.to_row, r.to_col>>
        dead == r.remove
        touched == {from, to} \cup Cells(dead)
    IN /\ loc'[checker] = to
       /\ to \in DOMAIN square' /\ square'[to] = checker
       /\ from \notin DOMAIN square'
       /\ \A cell \in Cells(dead) : cell \notin DOMAIN square'
       /\ \A cell \in (DOMAIN square \cup DOMAIN square') \ touched :
            /\ cell \in DOMAIN square
            /\ cell \in DOMAIN square'
            /\ square'[cell] = square[cell]
       /\ <<r.from_row, r.from_col>> = from
       /\ \A k \in 1..Len(dead) :
            /\ <<dead[k].row, dead[k].col>> \in Occupied
            /\ dead[k].color = color(square[<<dead[k].row, dead[k].col>>])
            /\ dead[k].isKing = isKing[square[<<dead[k].row, dead[k].col>>]]
       /\ Cardinality(Cells(dead)) = Len(dead)
       /\ {square[cell] : cell \in Occupied} \ {square'[cell] : cell \in DOMAIN square'}
            = {square[cell] : cell \in Cells(dead)}
       /\ dead # <<>> => ChainFrom(from, dead, 1, to)

MovesOf(checker, d) == validMovesFor(Start, checker, d).moves

Placed == {checker \in Checkers : loc[checker] # <<>>}

\* C7: every move validMovesFor returns, a simple step or the end of a chain of
\* jumps, ends on a square inside the board that is empty
C7_DestinationValidEmpty ==
    \A checker \in Placed, d \in Directions :
        \A i \in 1..Len(MovesOf(checker, d)) :
            LET move == MovesOf(checker, d)[i]
            IN /\ 0 <= move.to_row /\ move.to_row < boardSize
               /\ 0 <= move.to_col /\ move.to_col < boardSize
               /\ <<move.to_row, move.to_col>> \notin Occupied

\* a checker on the board has a simple step and a chain of two jumps
C7_Witness ==
    \E checker \in Placed, d \in Directions :
        /\ OnBoard(checker)
        /\ \E i \in 1..Len(MovesOf(checker, d)) : MovesOf(checker, d)[i].remove = <<>>
        /\ \E i \in 1..Len(MovesOf(checker, d)) : Len(MovesOf(checker, d)[i].remove) = 2

\* the jumps of a chain dead[i..] from square pos all advance in direction d
RECURSIVE ChainForward(_, _, _, _)
ChainForward(pos, dead, i, d) ==
    IF i > Len(dead) THEN TRUE
    ELSE /\ (dead[i].row - pos[1]) * d > 0
         /\ ChainForward(<<2 * dead[i].row - pos[1], 2 * dead[i].col - pos[2]>>,
                         dead, i + 1, d)

\* C10: validMovesFor gives a checker that is no king no simple step to row - d
\* and no chain with a jump against d; it gives a king a simple step to each of
\* (row - d, col - 1) and (row - d, col + 1) that is inside the board and empty
C10_Backward ==
    \A checker \in Placed, d \in Directions :
        LET row == loc[checker][1]
            col == loc[checker][2]
            moves == MovesOf(checker, d)
        IN IF ~isKing[checker]
           THEN \A i \in 1..Len(moves) :
                  /\ moves[i].remove = <<>> => moves[i].to_row # row - d
                  /\ ChainForward(loc[checker], moves[i].remove, 1, d)
           ELSE \A c \in {col - 1, col + 1} :
                  (isValidLocation(row - d, c) /\ <<row - d, c>> \notin Occupied)
                  => \E i \in 1..Len(moves) :
                       /\ moves[i].remove = <<>>
                       /\ moves[i].to_row = row - d
                       /\ moves[i].to_col = c

\* a king on the board has a simple step backward, and a checker that is no king
\* stands right in front of an opposing checker it could jump if it were a king
C10_Witness ==
    /\ \E checker \in Placed, d \in Directions :
         /\ OnBoard(checker) /\ isKing[checker]
         /\ \E i \in 1..Len(MovesOf(checker, d)) :
              /\ MovesOf(checker, d)[i].remove = <<>>
              /\ MovesOf(checker, d)[i].to_row = loc[checker][1] - d
    /\ \E checker \in Placed, d \in Directions, c \in {0 - 1, 1} :
         LET row == loc[checker][1]
             col == loc[checker][2]
         IN /\ OnBoard(checker) /\ ~isKing[checker]
            /\ <<row - d, col + c>> \in Occupied
            /\ color(square[<<row - d, col + c>>]) # color(checker)
            /\ isValidLocation(row - 2 * d, col + 2 * c)
            /\ <<row - 2 * d, col + 2 * c>> \notin Occupied

\* ------------------------------------------------------------------ events
\* C8: a moveTo, direct or through makeMove, emits one promote event for a
\* checker if it turns the checker's isKing from false to true, and none otherwise
C8_PromoteEvent ==
    [][(call' \in {"moveTo", "makeMove"}) =>
        \A checker \in Checkers :
            Len(SelectSeq(events', LAMBDA e : e.type = "promote" /\ e.checker = checker))
              = IF ~isKing[checker] /\ isKing'[checker] THEN 1 ELSE 0]_vars

\* the remove events of a list of captures, in its order
RemoveEvents(dead) ==
    [k \in 1..Len(dead) |->
        BoardEvent("remove", square[<<dead[k].row, dead[k].col>>],
                   <<dead[k].row, dead[k].col>>, <<>>)]

\* C9: a makeMove that returns a move emits one move event, then one promote
\* event if and only if it made the checker a king, then one remove event for
\* each checker captured, in the order of the chain, and nothing else
C9_EventTrace ==
    [][(MoveMade') =>
        \A checker \in Checkers, d \in Directions :
            (OnBoard(checker) /\ IsMoveOf(checker, d, result'.value[1]))
            => LET r == result'.value[1]
               IN events' = << BoardEvent("move", checker,
                                          <<r.to_row, r.to_col>>, loc[checker]) >>
                            \o (IF r.made_king
                                THEN << BoardEvent("promote", checker, <<>>, <<>>) >>
                                ELSE <<>>)
                            \o RemoveEvents(r.remove)]_vars

\* ------------------------------------------------------------------ chains
\* the squares jumped by a sequence of jumps
Killed(jumpSeq) ==
    {<<jumpSeq[j].killedRow, jumpSeq[j].killedCol>> : j \in 1..Len(jumpSeq)}

\* the sequences of jumps of a checker whose row and col are numbers
JumpsOf(checker, d) ==
    validJumpsFor(Start, checker, d, <<>>, loc[checker][1], loc[checker][2])

\* C11: no sequence of jumps validJumpsFor returns, and no remove list of a move
\* validMovesFor returns, holds the same square twice
C11_NoSquareTwice ==
    \A checker \in Placed, d \in Directions :
        /\ \A i \in 1..Len(JumpsOf(checker, d)) :
             Cardinality(Killed(JumpsOf(checker, d)[i])) = Len(JumpsOf(checker, d)[i])
        /\ \A i \in 1..Len(MovesOf(checker, d)) :
             Cardinality(Cells(MovesOf(checker, d)[i].remove))
               = Len(MovesOf(checker, d)[i].remove)

\* a king on the board has a chain of two jumps: from its end the checker jumped
\* last could be jumped again, back to the square the chain came from
C11_Witness ==
    \E checker \in Placed, d \in Directions :
        /\ OnBoard(checker) /\ isKing[checker]
        /\ \E i \in 1..Len(JumpsOf(checker, d)) :
             LET jumpSeq == JumpsOf(checker, d)[i]
             IN /\ Len(jumpSeq) = 2
                /\ isValidJump(Start, checker, jumpSeq[2].row, jumpSeq[2].col,
                               jumpSeq[1].row, jumpSeq[1].col, d)

\* ------------------------------------------------------------------ captures
\* a checker of the other color stands on the forward neighbour (row + d, col + c)
\* of the checker and the square beyond it is inside the board and empty
CanJumpOver(checker, d, c) ==
    LET row == loc[checker][1]
        col == loc[checker][2]
    IN /\ <<row + d, col + c>> \in Occupied
       /\ isValidLocation(row + d, col + c)
       /\ color(square[<<row + d, col + c>>]) # color(checker)
       /\ isValidLocation(row + 2 * d, col + 2 * c)
       /\ <<row + 2 * d, col + 2 * c>> \notin Occupied

\* the forward neighbour (row + d, col + c) of the checker is inside the board
\* and empty
CanStepTo(checker, d, c) ==
    /\ isValidLocation(loc[checker][1] + d, loc[checker][2] + c)
    /\ <<loc[checker][1] + d, loc[checker][2] + c>> \notin Occupied

\* C12: for a checker on the board, validMovesFor holds the jump over each
\* opposing forward neighbour whose far side is inside the board and empty, with
\* that one square as its remove list, and holds the simple step to each forward
\* neighbour that is inside the board and empty, jumps or no jumps
C12_JumpAndStep ==
    \A checker \in Placed, d \in Directions, c \in {0 - 1, 1} :
        OnBoard(checker) =>
        LET row == loc[checker][1]
            col == loc[checker][2]
            moves == MovesOf(checker, d)
        IN /\ CanJumpOver(checker, d, c) =>
                \E i \in 1..Len(moves) :
                    /\ moves[i].to_row = row + 2 * d
                    /\ moves[i].to_col = col + 2 * c
                    /\ Len(moves[i].remove) = 1
                    /\ moves[i].remove[1].row = row + d
                    /\ moves[i].remove[1].col = col + c
           /\ CanStepTo(checker, d, c) =>
                \E i \in 1..Len(moves) :
                    /\ moves[i].to_row = row + d
                    /\ moves[i].to_col = col + c
                    /\ moves[i].remove = <<>>

\* a checker on the board can jump over one forward neighbour and step to the other
C12_Witness ==
    \E checker \in Placed, d \in Directions, c \in {0 - 1, 1} :
        /\ OnBoard(checker)
        /\ CanJumpOver(checker, d, c)
        /\ CanStepTo(checker, d, 0 - c)

\* ------------------------------------------------------------------ makeRandomMove
\* the checkers of a color that are on the board
OnBoardOf(playerColor) ==
    {checker \in Checkers : OnBoard(checker) /\ color(checker) = playerColor}

\* no checker of the color on the board has a move in direction d
NoMoveFor(playerColor, d) ==
    \A checker \in OnBoardOf(playerColor) : MovesOf(checker, d) = <<>>

\* C13: makeRandomMove returns null exactly when no checker of the color on the
\* board has a move in the direction, however the shuffles fall; when it returns
\* null it changes nothing and emits no event; otherwise it returns the move it
\* made with a checker of the color
C13_RandomMove ==
    \A playerColor \in Colors, d \in Directions :
        \A made \in makeRandomMove(Start, playerColor, d) :
            /\ (made.value = <<>>) <=> NoMoveFor(playerColor, d)
            /\ made.value = <<>> => made.board = Start
            /\ made.value # <<>> =>
                 /\ made.board.error = "none"
                 /\ \E checker \in OnBoardOf(playerColor) :
                      /\ loc[checker] = <<made.value[1].from_row, made.value[1].from_col>>
                      /\ made.board.loc[checker]
                           = <<made.value[1].to_row, made.value[1].to_col>>
                      /\ made.board.square[made.board.loc[checker]] = checker

\* makeRandomMove has returned null, changing nothing, on a board that holds
\* checkers of both colors: those of the color it was called for have no move
C13_Witness ==
    /\ call = "makeRandomMove"
    /\ result = [error |-> "none", value |-> <<>>]
    /\ events = <<>>
    /\ OnBoardOf("red") # {}
    /\ OnBoardOf("black") # {}

\* ------------------------------------------------------------------ round trip
\* board.add(checker, row, col) followed immediately by board.remove(checker); an
\* exception thrown by add ends the sequence
AddThenRemove(checker, row, col) == remove(add(Start, checker, row, col), checker)

\* C14: add(checker, row, col) followed immediately by remove(checker) leaves
\* the cell (row, col) holding what it held before the add, also when the add
\* changed nothing because the cell held a checker; stated here for a cell of the
\* board and a checker that is not on the board before the add
C14_RoundTrip ==
    \A checker \in Checkers, row \in Coords, col \in Coords :
        (~OnBoard(checker) /\ isValidLocation(row, col))
        => cellAt(AddThenRemove(checker, row, col), row, col) = cellAt(Start, row, col)

\* ------------------------------------------------------------------ directions
\* C15: validMovesFor fails for a direction that is neither 1 nor -1 and returns
\* no move, so a makeMove of a checker on the board with turnDirection =
\* playerDirection = such a direction moves no checker, removes none and emits
\* no event
C15_InvalidDirection ==
    [][(call' = "makeMove") =>
        \A checker \in Placed, d \in OtherDirections :
            LET validMoves == validMovesFor(Start, checker, d)
            IN \A toRow \in Coords, toCol \in Coords :
                 (OnBoard(checker) /\ MakeMoveTo(checker, validMoves, d, d, toRow, toCol))
                 => /\ square' = square
                    /\ loc' = loc
                    /\ events' = <<>>]_vars

\* ------------------------------------------------------------------ queries
\* C16: isEmptyLocation and getCheckerAt report an error for a row or col outside
\* 0 .. boardSize - 1: isEmptyLocation is never true of such a location, and
\* getCheckerAt never answers for it as it answers for an empty square
C16_OutOfBounds ==
    \A row \in Coords, col \in Coords :
        ~isValidLocation(row, col)
        => /\ ~isEmptyLocation(Start, row, col)
           /\ getCheckerAt(Start, row, col) # Empty

\* ------------------------------------------------------------------ checkRep
\* the last call was add, moveTo, remove or removeAt and went as far as
\* dispatching its event: it ran checkRep, on the state it left, just before
DispatchedAfterCheckRep ==
    /\ call \in {"add", "moveTo", "remove", "removeAt"}
    /\ events # <<>>
    /\ events[Len(events)].type \in {"add", "move", "remove"}

\* C17: a call of add, moveTo, remove or removeAt in which checkRep finds the
\* invariant broken stops there: it does not go on to dispatch its event
C17_CheckRepAborts ==
    DispatchedAfterCheckRep => checkRep(Start)

\* ------------------------------------------------------------------ clear
\* the remove event clear dispatches for a cell
ClearEvent(cell) ==
    BoardEvent("remove", square[cell], <<keyOf(cell[1]), keyOf(cell[2])>>, <<>>)

\* C18: clear leaves no checker in the grid and emits one remove event for each
\* cell that held a checker, carrying that checker and the cell, and nothing else
C18_Clear ==
    [][(call' = "clear") =>
        /\ result'.error = "none"
        /\ getAllCheckers(Start') = {}
        /\ Len(events') = Cardinality(Occupied)
        /\ \A cell \in Occupied :
             Cardinality({k \in 1..Len(events') : events'[k] = ClearEvent(cell)}) = 1]_vars

\* clear has emptied a grid that held checkers in two cells
C18_Witness ==
    /\ call = "clear"
    /\ Len(events) = 2
    /\ events[1].at # events[2].at
    /\ square = <<>>

\* ------------------------------------------------------------------ positions
\* the last call was a remove or a removeAt that took a checker off the board
\* and dispatched its event
Removed(checker) ==
    /\ call \in {"remove", "removeAt"}
    /\ events # <<>>
    /\ events[Len(events)].checker = checker
    /\ ~OnBoard(checker)

\* C19: after remove(checker), or removeAt of its cell, has taken a checker off
\* the board, the checker's row and col are undefined and getLocationOf returns
\* null for it
C19_NoPosition ==
    \A checker \in Checkers :
        Removed(checker)
        => /\ loc[checker] = <<>>
           /\ getLocationOf(Start, checker) = <<>>

\* ------------------------------------------------------------------ handlers
\* the events of one type that the last step dispatched for a checker
Dispatched(type, checker) ==
    {k \in 1..Len(events') : events'[k].type = type /\ events'[k].checker = checker}

\* C20: when the handlers of an event run, the invariant checkRep tests holds of
\* the whole grid and the checker of the event records the cell that holds it;
\* checked for the handlers of "add", which run on the state the call leaves, and
\* for the handlers of "promote", which run inside moveTo
C20_HandlersSeeFinalState ==
    [][\A checker \in Checkers :
         /\ (call' = "add" /\ Dispatched("add", checker) # {})
            => /\ checkRep(Start')
               /\ cellAt(Start', loc'[checker][1], loc'[checker][2]) = checker
         /\ (call' \in {"makeMove", "makeRandomMove"} /\ Dispatched("promote", checker) # {})
            => LET seen == moveToAtPromote(Start, checker, loc'[checker][1], loc'[checker][2])
               IN /\ checkRep(seen)
                  /\ cellAt(seen, seen.loc[checker][1], seen.loc[checker][2]) = checker]_vars

\* ------------------------------------------------------------------ the move chosen
\* C21: makeRandomMove applies the move it chose: the value returned has the
\* destination and the remove list of that move, and the checkers taken off the
\* board are those on the squares of that list
C21_AppliesSelected ==
    \A playerColor \in Colors, d \in Directions :
        \A made \in makeRandomMove(Start, playerColor, d) :
            made.value # <<>> =>
                /\ made.value[1].to_row = made.move[1].to_row
                /\ made.value[1].to_col = made.move[1].to_col
                /\ made.value[1].remove = made.move[1].remove
                /\ \A cell \in Cells(made.move[1].remove) :
                     cell \notin DOMAIN made.board.square

\* ------------------------------------------------------------------ the search
\* the square a sequence of jumps has brought the checker to
EndOf(checker, jumpSeq) ==
    IF jumpSeq = <<>> THEN loc[checker]
    ELSE <<jumpSeq[Len(jumpSeq)].row, jumpSeq[Len(jumpSeq)].col>>

\* jump is a valid jump for the checker after the jumps of jumpSeq: it lands two
\* squares away diagonally, on a square of the board that is empty, over a checker
\* of the other color that no jump of jumpSeq passed over, and not against
\* direction d unless the checker is a king
ValidNext(checker, d, jumpSeq, jump) ==
    LET from == EndOf(checker, jumpSeq)
    IN /\ jump.row - from[1] \in {0 - 2, 2}
       /\ jump.col - from[2] \in {0 - 2, 2}
       /\ jump.killedRow = (jump.row + from[1]) \div 2
       /\ jump.killedCol = (jump.col + from[2]) \div 2
       /\ isValidLocation(jump.row, jump.col)
       /\ <<jump.row, jump.col>> \notin Occupied
       /\ <<jump.killedRow, jump.killedCol>> \in Occupied
       /\ color(square[<<jump.killedRow, jump.killedCol>>]) # color(checker)
       /\ <<jump.killedRow, jump.killedCol>> \notin Killed(jumpSeq)
       /\ (jump.row - from[1]) * d > 0 \/ isKing[checker]

\* the four jumps there can be from a square
JumpsFrom(from) ==
    {[killedCol |-> from[2] + dc, killedRow |-> from[1] + dr,
      col |-> from[2] + 2 * dc, row |-> from[1] + 2 * dr] :
        dr \in {0 - 1, 1}, dc \in {0 - 1, 1}}

\* C22: the sequences validJumpsFor returns from an empty jumpSeq are the chains
\* of valid jumps from the checker's square, all of them and each once: every
\* sequence returned is such a chain, every valid jump from the square and every
\* valid jump after a sequence returned gives a sequence returned, every prefix
\* of a sequence returned is returned, and none is returned twice
C22_AllChains ==
    \A checker \in Placed, d \in Directions :
        LET jumps == JumpsOf(checker, d)
            found == {jumps[i] : i \in 1..Len(jumps)}
        IN /\ \A jumpSeq \in found :
                /\ jumpSeq # <<>>
                /\ \A j \in 1..Len(jumpSeq) :
                     ValidNext(checker, d, SubSeq(jumpSeq, 1, j - 1), jumpSeq[j])
                /\ \A j \in 1..Len(jumpSeq) : SubSeq(jumpSeq, 1, j) \in found
           /\ \A jumpSeq \in found \cup {<<>>} :
                \A jump \in JumpsFrom(EndOf(checker, jumpSeq)) :
                    ValidNext(checker, d, jumpSeq, jump) => Append(jumpSeq, jump) \in found
           /\ Cardinality(found) = Len(jumps)

\* a checker on the board has chains that begin with different jumps, and a
\* chain of two jumps and more
C22_Witness ==
    \E checker \in Placed, d \in Directions :
        LET jumps == JumpsOf(checker, d)
        IN /\ OnBoard(checker)
           /\ \E i \in 1..Len(jumps), k \in 1..Len(jumps) : jumps[i][1] # jumps[k][1]
           /\ \E i \in 1..Len(jumps) : Len(jumps[i]) >= 2

\* ------------------------------------------------------------------ termination
\* the squares of the board that hold a checker of the other color
Opposing(checker) ==
    {cell \in Occupied : isValidLocation(cell[1], cell[2])
                         /\ color(square[cell]) # color(checker)}

\* C23: the search of validJumpsFor ends: a call for a jumpSeq of n jumps is n
\* calls deep, each sequence returned is the jumpSeq of one call, and no sequence
\* is longer than the number of opposing checkers on the board, so the depth of
\* the recursion is at most that number (plus the first call), king or not
C23_SearchBounded ==
    \A checker \in Placed, d \in Directions :
        \A i \in 1..Len(JumpsOf(checker, d)) :
            Len(JumpsOf(checker, d)[i]) <= Cardinality(Opposing(checker))

\* a king on the board has a chain of three jumps
C23_Witness ==
    \E checker \in Placed, d \in Directions :
        /\ OnBoard(checker) /\ isKing[checker]
        /\ \E i \in 1..Len(JumpsOf(checker, d)) : Len(JumpsOf(checker, d)[i]) >= 3

\* ------------------------------------------------------------------ parity
\* the color of a square: the parity of row + col
Parity(cell) == (cell[1] + cell[2]) % 2

\* every checker on board value b stands on a square of the color of the square
\* it stands on in the current state
SameParities(b) ==
    \A other \in getAllCheckers(b) : Parity(b.loc[other]) = Parity(loc[other])

\* C24: a makeMove or makeRandomMove with a direction 1 or -1 that makes a move
\* leaves every checker on the board on a square of the parity it had; every
\* move of validMovesFor ends on a square of the parity of the checker's square
\* and removes only checkers on squares of that parity
C24_Parity ==
    \A d \in Directions :
        /\ \A checker \in Checkers :
             OnBoard(checker) =>
                LET validMoves == validMovesFor(Start, checker, d)
                IN \A i \in 1..Len(validMoves.moves) :
                     LET move == validMoves.moves[i]
                         made == makeMove(Start, checker, validMoves, d, d,
                                          move.to_row, move.to_col)
                     IN /\ Parity(<<move.to_row, move.to_col>>) = Parity(loc[checker])
                        /\ \A cell \in Cells(move.remove) :
                             Parity(cell) = Parity(loc[checker])
                        /\ made.value # <<>>
                        /\ SameParities(made.board)
        /\ \A playerColor \in Colors :
             \A made \in makeRandomMove(Start, playerColor, d) : SameParities(made.board)

\* a move has been made on a board where a red checker and a black one stand
\* side by side, on squares of different parity
C24_Witness ==
    /\ call \in {"makeMove", "makeRandomMove"}
    /\ result.error = "none" /\ result.value # <<>>
    /\ \E red \in OnBoardOf("red"), black \in OnBoardOf("black") :
         /\ Parity(loc[red]) # Parity(loc[black])
         /\ loc[red][1] = loc[black][1]
         /\ loc[red][2] - loc[black][2] \in {0 - 1, 1}

====
